---- MODULE Spec2Model ----
(***************************************************************************)
(* COSE Sign1 envelope (packages/cose/src/coseSign.ts) over the CBOR codec *)
(* of @m-doc/cbor.  The codec's sources are not part of the tree; it is    *)
(* modelled at byte level from its specification (RFC 8949 subset: major   *)
(* types 0-7, minimal-width arguments of 0/8/16/32 bits, tags 0 and 24,    *)
(* simple values 20-23).  Floats, 64-bit arguments and indefinite lengths  *)
(* are outside the modelled subset and decode as a failure.                *)
(*                                                                         *)
(* A native value is a tagged pair <<kind, content>>:                      *)
(*   <<"int", n>>  <<"bstr", bytes>>  <<"tstr", utf8 bytes>>               *)
(*   <<"arr", values>>  <<"map", <<key, value>> pairs>>                    *)
(*   <<"simple", 20..23>>  <<"de", bytes>> (DataElement)                   *)
(*   <<"date", utf8 bytes>>                                                *)
(***************************************************************************)
EXTENDS Integers, Sequences, FiniteSets, TLC

\* ------------------------------------------------------------------ values
I(n) == <<"int", n>>
B(b) == <<"bstr", b>>
T(s) == <<"tstr", s>>
A(s) == <<"arr", s>>
M(p) == <<"map", p>>
False == <<"simple", 20>>
True == <<"simple", 21>>
Null == <<"simple", 22>>
Undef == <<"simple", 23>>
Kind(v) == v[1]
Val(v) == v[2]

\* DataElement: a wrapper holding an already encoded CBOR item.
DataElement(buffer) == <<"de", buffer>>

\* tag numbers of the extension registry
TagDate == 0
TagEncodedCbor == 24

\* ----------------------------------------------------------------- encoder
RECURSIVE BigEndian(_, _)
BigEndian(n, width) ==
  IF width = 0 THEN <<>>
  ELSE BigEndian(n \div 256, width - 1) \o <<n % 256>>

\* head byte plus the minimal-width argument
EncodeHead(major, arg) ==
  IF arg < 24 THEN <<major * 32 + arg>>
  ELSE IF arg < 256 THEN <<major * 32 + 24>> \o BigEndian(arg, 1)
  ELSE IF arg < 65536 THEN <<major * 32 + 25>> \o BigEndian(arg, 2)
  ELSE <<major * 32 + 26>> \o BigEndian(arg, 4)

\* variant: the stored item is written after the tag without its byte-string
\* wrapping
EncodeDataElementRaw(buffer) == EncodeHead(6, TagEncodedCbor) \o buffer

\* a DataElement: tag 24, then the stored buffer as a byte string
EncodeDataElement(buffer) ==
  EncodeHead(6, TagEncodedCbor) \o EncodeHead(2, Len(buffer)) \o buffer

RECURSIVE Encode(_)
RECURSIVE EncodeItems(_)
RECURSIVE EncodeEntries(_)
EncodeItems(s) ==
  IF s = <<>> THEN <<>> ELSE Encode(Head(s)) \o EncodeItems(Tail(s))

EncodeEntries(p) ==
  IF p = <<>> THEN <<>>
  ELSE Encode(Head(p)[1]) \o Encode(Head(p)[2]) \o EncodeEntries(Tail(p))

Encode(v) ==
  CASE Kind(v) = "int" ->
         IF Val(v) >= 0 THEN EncodeHead(0, Val(v)) ELSE EncodeHead(1, -1 - Val(v))
    [] Kind(v) = "bstr" -> EncodeHead(2, Len(Val(v))) \o Val(v)
    [] Kind(v) = "tstr" -> EncodeHead(3, Len(Val(v))) \o Val(v)
    [] Kind(v) = "arr" -> EncodeHead(4, Len(Val(v))) \o EncodeItems(Val(v))
    [] Kind(v) = "map" -> EncodeHead(5, Len(Val(v))) \o EncodeEntries(Val(v))
    [] Kind(v) = "simple" -> <<7 * 32 + Val(v)>>
    [] Kind(v) = "date" ->
         EncodeHead(6, TagDate) \o EncodeHead(3, Len(Val(v))) \o Val(v)
    [] Kind(v) = "de" -> EncodeDataElement(Val(v))

\* DataElement.fromData: encode once, keep the bytes verbatim
FromData(v) == DataElement(Encode(v))

\* ----------------------------------------------------------------- decoder
Failed == [ok |-> FALSE, val |-> Undef, next |-> 0]
Decoded(v, n) == [ok |-> TRUE, val |-> v, next |-> n]

RECURSIVE ReadUint(_, _, _)
ReadUint(bytes, pos, width) ==
  IF width = 0 THEN 0
  ELSE ReadUint(bytes, pos, width - 1) * 256 + bytes[pos + width - 1]

\* argument of the head byte at pos: [ok, arg, next]
ReadArgument(bytes, pos) ==
  LET ai == bytes[pos] % 32
      width == CASE ai = 24 -> 1 [] ai = 25 -> 2 [] ai = 26 -> 4 [] OTHER -> 0
  IN  IF ai < 24 THEN [ok |-> TRUE, arg |-> ai, next |-> pos + 1]
      ELSE IF width = 0 \/ pos + width > Len(bytes)
             THEN [ok |-> FALSE, arg |-> 0, next |-> 0]
             ELSE [ok |-> TRUE, arg |-> ReadUint(bytes, pos + 1, width),
                   next |-> pos + 1 + width]

\* extension registry: the decoded payload p of a tag becomes a date or a
\* DataElement; under any other tag it is passed through
DecodeTag(tag, p) ==
  IF tag = TagEncodedCbor THEN
    IF Kind(p.val) = "bstr"
      THEN Decoded(DataElement(Val(p.val)), p.next) ELSE Failed
  ELSE IF tag = TagDate THEN
    IF Kind(p.val) = "tstr"
      THEN Decoded(<<"date", Val(p.val)>>, p.next) ELSE Failed
  ELSE p

RECURSIVE DecodeAt(_, _)
RECURSIVE DecodeItems(_, _, _)
RECURSIVE DecodeEntries(_, _, _)

\* count items starting at pos: [ok, val (sequence), next]
DecodeItems(bytes, pos, count) ==
  IF count = 0 THEN [ok |-> TRUE, val |-> <<>>, next |-> pos]
  ELSE LET h == DecodeAt(bytes, pos) IN
       IF ~h.ok THEN [ok |-> FALSE, val |-> <<>>, next |-> 0]
       ELSE LET r == DecodeItems(bytes, h.next, count - 1) IN
            IF ~r.ok THEN r
            ELSE [ok |-> TRUE, val |-> <<h.val>> \o r.val, next |-> r.next]

DecodeEntries(bytes, pos, count) ==
  IF count = 0 THEN [ok |-> TRUE, val |-> <<>>, next |-> pos]
  ELSE LET k == DecodeAt(bytes, pos) IN
       IF ~k.ok THEN [ok |-> FALSE, val |-> <<>>, next |-> 0]
       ELSE LET v == DecodeAt(bytes, k.next) IN
            IF ~v.ok THEN [ok |-> FALSE, val |-> <<>>, next |-> 0]
            ELSE LET r == DecodeEntries(bytes, v.next, count - 1) IN
                 IF ~r.ok THEN r
                 ELSE [ok |-> TRUE, val |-> <<<<k.val, v.val>>>> \o r.val,
                       next |-> r.next]

DecodeAt(bytes, pos) ==
  IF pos > Len(bytes) THEN Failed
  ELSE
  LET major == bytes[pos] \div 32
      a == ReadArgument(bytes, pos)
  IN
  IF ~a.ok THEN Failed
  ELSE CASE major = 0 -> Decoded(I(a.arg), a.next)
    [] major = 1 -> Decoded(I(-1 - a.arg), a.next)
    [] major \in {2, 3} ->
         IF a.next + a.arg - 1 > Len(bytes) THEN Failed
         ELSE Decoded(<<IF major = 2 THEN "bstr" ELSE "tstr",
                        SubSeq(bytes, a.next, a.next + a.arg - 1)>>,
                      a.next + a.arg)
    [] major = 4 ->
         LET r == DecodeItems(bytes, a.next, a.arg) IN
         IF r.ok THEN Decoded(A(r.val), r.next) ELSE Failed
    [] major = 5 ->
         LET r == DecodeEntries(bytes, a.next, a.arg) IN
         IF r.ok THEN Decoded(M(r.val), r.next) ELSE Failed
    [] major = 6 ->
         LET p == DecodeAt(bytes, a.next) IN
         IF ~p.ok THEN Failed ELSE DecodeTag(a.arg, p)
    [] major = 7 ->
         IF bytes[pos] % 32 \in 20..23
           THEN Decoded(<<"simple", bytes[pos] % 32>>, pos + 1)
           ELSE Failed

\* CBOR.decode: exactly one item from the start; trailing bytes ignored
Decode(bytes) == DecodeAt(bytes, 1)


\* CBOR.decode applied to an envelope field: only a byte buffer can be read
DecodeBuffer(v) == IF Kind(v) = "bstr" THEN Decode(Val(v)) ELSE Failed

\* ------------------------------------------------------- JavaScript values
RECURSIVE Digits(_)
Digits(n) == IF n < 10 THEN <<48 + n>> ELSE Digits(n \div 10) \o <<48 + (n % 10)>>

\* property keys are strings: a map key 4 and a map key "4" name one property
PropKeys(label) == {I(label), T(Digits(label))}

\* obj[label]: [ok, val]; reading a property of null or undefined throws
GetProp(obj, label) ==
  CASE Kind(obj) = "simple" /\ Val(obj) \in {22, 23} ->
         [ok |-> FALSE, val |-> Undef]
    [] Kind(obj) = "map" ->
         LET hits == {i \in 1..Len(Val(obj)) : Val(obj)[i][1] \in PropKeys(label)}
         IN  IF hits = {} THEN [ok |-> TRUE, val |-> Undef]
             ELSE [ok |-> TRUE,
                   val |-> Val(obj)[CHOOSE i \in hits : \A j \in hits : j <= i][2]]
    [] Kind(obj) = "arr" ->
         [ok |-> TRUE,
          val |-> IF label < Len(Val(obj)) THEN Val(obj)[label + 1] ELSE Undef]
    [] Kind(obj) = "tstr" ->
         [ok |-> TRUE,
          val |-> IF label < Len(Val(obj)) THEN T(<<Val(obj)[label + 1]>>) ELSE Undef]
    [] OTHER -> [ok |-> TRUE, val |-> Undef]

\* the values the || operator skips
Falsy(v) == v \in {Undef, Null, False, I(0), T(<<>>)}

\* { ...base, [k]: v }
SetKey(p, k, v) ==
  IF \E i \in 1..Len(p) : p[i][1] = k
    THEN [i \in 1..Len(p) |-> IF p[i][1] = k THEN <<k, v>> ELSE p[i]]
    ELSE Append(p, <<k, v>>)

RECURSIVE Spread(_, _)
Spread(base, rest) ==
  IF rest = <<>> THEN base
  ELSE Spread(SetKey(base, Head(rest)[1], Head(rest)[2]), Tail(rest))

\* const [a, b, c, d] = value: [ok, val (4 elements)]
Destructure4(v) ==
  LET at(s, i) == IF i <= Len(s) THEN s[i] ELSE Undef IN
  CASE Kind(v) = "arr" ->
         [ok |-> TRUE, val |-> [i \in 1..4 |-> at(Val(v), i)]]
    [] Kind(v) = "tstr" ->
         [ok |-> TRUE,
          val |-> [i \in 1..4 |-> IF i <= Len(Val(v)) THEN T(<<Val(v)[i]>>) ELSE Undef]]
    [] OTHER -> [ok |-> FALSE, val |-> [i \in 1..4 |-> Undef]]

\* ------------------------------------------------------------ COSE tables
COSE_HEADERS == [alg |-> 1, kid |-> 4]
CertificateLabel == 33

\* the labels are text strings in the table
COSE_ALGORITHMS ==
  [ES256 |-> T(<<45, 55>>), ES384 |-> T(<<45, 51, 53>>),
   ES512 |-> T(<<45, 51, 54>>), EDDSA |-> T(<<45, 56>>)]

\* "Signature1"
Signature1 == T(<<83, 105, 103, 110, 97, 116, 117, 114, 101, 49>>)

\* an absent alg and the empty string take the same branch of getAlgValue
NoAlg == ""

getAlgValue(alg) ==
  IF alg = NoAlg THEN COSE_ALGORITHMS.ES256
  ELSE IF alg \in DOMAIN COSE_ALGORITHMS THEN COSE_ALGORITHMS[alg]
  ELSE COSE_ALGORITHMS.ES256

\* fields = [alg, kid, rest]; kid is dropped
convertHeader(fields) ==
  M(Spread(<<<<T(Digits(COSE_HEADERS.alg)), getAlgValue(fields.alg)>>>>, fields.rest))

\* variant: ES384 and ES512 change places
algValueToAlgSwapped(algValue) ==
  IF algValue = I(-7) THEN "ES256"
  ELSE IF algValue = I(-35) THEN "ES512"
  ELSE IF algValue = I(-36) THEN "ES384"
  ELSE IF algValue = I(-8) THEN "EDDSA"
  ELSE "ES256"

algValueToAlg(algValue) ==
  IF algValue = I(-7) THEN "ES256"
  ELSE IF algValue = I(-35) THEN "ES384"
  ELSE IF algValue = I(-36) THEN "ES512"
  ELSE IF algValue = I(-8) THEN "EDDSA"
  ELSE "ES256"

\* ---------------------------------------------------------------- bounds
MaxSigByte == 1
MaxPayloadInt == 1

\* ---------------------------------------------------------------- inputs
HeaderBytes(pairs) == B(Encode(M(pairs)))
AlgLabelInputs ==
  {I(-7), I(-35), I(-36), I(-8), I(0), I(5), T(<<45, 51, 53>>)}
ProtectedInputs ==
  {HeaderBytes(<<<<I(1), l>>>>) : l \in AlgLabelInputs}
    \cup {HeaderBytes(<<>>), B(<<>>), B(Encode(Null))}
KidValue == B(<<7>>)
CertValue == B(<<9>>)
UnprotectedInputs ==
  {M(<<>>), M(<<<<I(4), KidValue>>, <<I(33), CertValue>>>>)}
PayloadInputs ==
  {B(Encode(M(<<<<T(<<97>>), I(n)>>>>))) : n \in 1..MaxPayloadInt} \cup {B(<<>>)}
SignatureBytes == {B(<<s>>) : s \in 1..MaxSigByte}
SignAlgInputs == {"ES256", "ES384"}
CallbackErrors == {"E1", "E2"}
FieldInputs ==
  {[alg |-> a, kid |-> Undef, rest |-> <<>>] :
     a \in {NoAlg, "ES256", "ES384", "ES512", "EDDSA", "RS256"}}
    \cup {[alg |-> "ES384", kid |-> KidValue, rest |-> <<<<T(<<120>>), I(5)>>>>]}
\* received buffers that are not Sign1 messages
BufferInputs ==
  {Encode(A(<<HeaderBytes(<<>>), M(<<>>), B(Encode(I(1)))>>)),
   Encode(A(<<HeaderBytes(<<>>), M(<<>>), B(Encode(I(1))), B(<<1>>), I(0)>>)),
   Encode(A(<<HeaderBytes(<<>>), M(<<>>), B(Encode(I(1))), B(<<1>>)>>)),
   Encode(A(<<>>)),
   Encode(I(4)), Encode(M(<<>>)), Encode(Null), <<>>}

\* ----------------------------------------------------------------- state
VARIABLES
  env,        \* the Sign1 instance: its four fields
  signPc,     \* "idle", or "await" while the signer is pending
  signArgs,   \* what the pending signer was called with
  verifyPc,   \* "idle", or "await" while the verifier is pending
  verifyArgs, \* what the pending verifier was called with
  out,        \* what the most recent step returned or threw
  hist,       \* where the instance comes from (not program state)
  codec       \* codec round trip under test

vars == <<env, signPc, signArgs, verifyPc, verifyArgs, out, hist, codec>>

Sign1(ph, uh, pl, sg) ==
  [protectedHeader |-> ph, unprotectedHeader |-> uh, payload |-> pl,
   signature |-> sg]

NoEnv == Sign1(Undef, Undef, Undef, Undef)
\* a message and the sign call that produced it
NoSrc == [signed |-> FALSE, stable |-> FALSE, env |-> NoEnv, data |-> <<>>,
          signature |-> Undef]
NoSignArgs == [data |-> <<>>, alg |-> "", kid |-> Undef, env |-> NoEnv]
NoVerifyArgs ==
  [called |-> FALSE, data |-> <<>>, signature |-> Undef, alg |-> "",
   kid |-> Undef, certificate |-> Undef, label |-> Undef, setAlg |-> "-"]
NoOut ==
  [op |-> "none", ok |-> TRUE, err |-> "", message |-> <<>>, src |-> NoSrc,
   verified |-> FALSE, answer |-> "none", payload |-> Undef, val |-> Undef]
Out(op) == [NoOut EXCEPT !.op = op]
Thrown(op, err) == [NoOut EXCEPT !.op = op, !.ok = FALSE, !.err = err]
NoCodec == [stage |-> "idle", v |-> Undef, de |-> Undef, nested |-> FALSE,
            bytes |-> <<>>, ok |-> FALSE, out |-> Undef]

\* history of a freshly constructed instance
NewHist(src) == [src |-> src, setAlg |-> "-", fields |-> <<>>]

Init ==
  /\ env \in {Sign1(ph, uh, pl, sg) :
                ph \in ProtectedInputs, uh \in UnprotectedInputs,
                pl \in PayloadInputs, sg \in SignatureBytes \cup {Undef}}
  /\ signPc = "idle" /\ signArgs = NoSignArgs
  /\ verifyPc = "idle" /\ verifyArgs = NoVerifyArgs
  /\ out = NoOut
  /\ hist = NewHist(NoSrc)
  /\ codec = NoCodec

\* ------------------------------------------------------------- operations
setProtectedHeader(fields) ==
  /\ env' = [env EXCEPT !.protectedHeader = B(Encode(convertHeader(fields)))]
  /\ hist' = [src |-> NoSrc, setAlg |-> fields.alg, fields |-> fields.rest]
  /\ out' = Out("setProtectedHeader")
  /\ UNCHANGED <<signPc, signArgs, verifyPc, verifyArgs, codec>>

\* variant: payload and protected header change places
createSigStructureSwapped(e) ==
  Encode(A(<<Signature1, e.payload, B(<<>>), e.protectedHeader>>))

createSigStructure(e) ==
  Encode(A(<<Signature1, e.protectedHeader, B(<<>>), e.payload>>))

\* sign up to the await: the signer is called with (sig, key, {alg, kid}).
\* The key is handed through untouched and is not modelled.
SignCall(alg) ==
  /\ signPc = "idle"
  /\ LET sig == createSigStructure(env)
         kid == GetProp(env.unprotectedHeader, COSE_HEADERS.kid)
     IN  IF ~kid.ok
           THEN /\ out' = Thrown("signCall", "TypeError")
                /\ UNCHANGED <<signPc, signArgs>>
           ELSE /\ signPc' = "await"
                /\ signArgs' = [data |-> sig, alg |-> alg, kid |-> kid.val,
                                env |-> env]
                /\ out' = Out("signCall")
  /\ UNCHANGED <<env, verifyPc, verifyArgs, hist, codec>>

\* the signer resolved with signature: the message is built from the fields
\* as they are now
SignResolve(signature) ==
  /\ signPc = "await"
  /\ signPc' = "idle"
  /\ signArgs' = NoSignArgs
  /\ out' = [Out("signResolve") EXCEPT
               !.message = Encode(A(<<env.protectedHeader,
                                      env.unprotectedHeader,
                                      env.payload, signature>>)),
               !.src = [signed |-> TRUE, stable |-> signArgs.env = env,
                        env |-> signArgs.env, data |-> signArgs.data,
                        signature |-> signature]]
  /\ UNCHANGED <<env, verifyPc, verifyArgs, hist, codec>>

\* variant: a placeholder signature is left on the instance
SignRejectStoring(err) ==
  /\ signPc = "await"
  /\ signPc' = "idle"
  /\ signArgs' = NoSignArgs
  /\ env' = [env EXCEPT !.signature = B(<<>>)]
  /\ out' = [Thrown("signReject", err) EXCEPT !.answer = err]
  /\ UNCHANGED <<verifyPc, verifyArgs, hist, codec>>

\* the signer rejected with, or threw, err
SignReject(err) ==
  /\ signPc = "await"
  /\ signPc' = "idle"
  /\ signArgs' = NoSignArgs
  /\ out' = [Thrown("signReject", err) EXCEPT !.answer = err]
  /\ UNCHANGED <<env, verifyPc, verifyArgs, hist, codec>>

\* variant: tests for null instead of undefined
MissingSignatureNull(e) == e.signature = Null

MissingSignature(e) == e.signature = Undef

\* verify up to the await
VerifyCall ==
  /\ verifyPc = "idle"
  /\ IF MissingSignature(env)
       THEN /\ out' = Thrown("verifyCall", "MissingSignature")
            /\ UNCHANGED <<verifyPc, verifyArgs>>
     ELSE
     LET protectedHeader == DecodeBuffer(env.protectedHeader)
         label == GetProp(protectedHeader.val, COSE_HEADERS.alg)
         algValue == IF Falsy(label.val) THEN I(-7) ELSE label.val
         alg == algValueToAlg(algValue)
         kid == GetProp(env.unprotectedHeader, COSE_HEADERS.kid)
         certificate == GetProp(env.unprotectedHeader, CertificateLabel)
         toBeSigned ==
           Encode(A(<<Signature1, env.protectedHeader, B(<<>>), env.payload>>))
     IN  IF ~protectedHeader.ok
           THEN /\ out' = Thrown("verifyCall", "DecodeError")
                /\ UNCHANGED <<verifyPc, verifyArgs>>
         ELSE IF ~label.ok \/ ~kid.ok \/ ~certificate.ok
           THEN /\ out' = Thrown("verifyCall", "TypeError")
                /\ UNCHANGED <<verifyPc, verifyArgs>>
         ELSE /\ verifyPc' = "await"
              /\ verifyArgs' = [called |-> TRUE, data |-> toBeSigned,
                                signature |-> env.signature, alg |-> alg,
                                kid |-> kid.val,
                                certificate |-> certificate.val,
                                label |-> label.val,
                                setAlg |-> hist.setAlg]
              /\ out' = Out("verifyCall")
  /\ UNCHANGED <<env, signPc, signArgs, hist, codec>>

\* the verifier resolved with verified
VerifyResolve(verified) ==
  /\ verifyPc = "await"
  /\ verifyPc' = "idle"
  /\ verifyArgs' = NoVerifyArgs
  /\ LET decodedPayload == DecodeBuffer(env.payload)
         answer == IF verified THEN "true" ELSE "false"
     IN  out' = IF decodedPayload.ok
                  THEN [Out("verifyResolve") EXCEPT !.verified = verified,
                          !.payload = decodedPayload.val, !.answer = answer]
                  ELSE [Thrown("verifyResolve", "DecodeError") EXCEPT
                          !.answer = answer]
  /\ UNCHANGED <<env, signPc, signArgs, hist, codec>>

\* the verifier rejected with, or threw, err
VerifyReject(err) ==
  /\ verifyPc = "await"
  /\ verifyPc' = "idle"
  /\ verifyArgs' = NoVerifyArgs
  /\ out' = [Thrown("verifyReject", err) EXCEPT !.answer = err]
  /\ UNCHANGED <<env, signPc, signArgs, hist, codec>>

\* the buffers a caller can hold: the fixed ones and the message sign has
\* just returned
ReceivedBuffers ==
  BufferInputs \cup (IF out.op = "signResolve" THEN {out.message} ELSE {})

\* Sign1.fromBuffer: a new instance replaces the one under observation, so
\* it is taken only when no call on the old one is pending
fromBuffer(buffer) ==
  /\ signPc = "idle" /\ verifyPc = "idle"
  /\ LET decoded == Decode(buffer)
         parts == Destructure4(decoded.val)
     IN  IF ~decoded.ok
           THEN /\ out' = Thrown("fromBuffer", "DecodeError")
                /\ UNCHANGED <<env, hist>>
         ELSE IF ~parts.ok
           THEN /\ out' = [Thrown("fromBuffer", "TypeError") EXCEPT
                             !.val = decoded.val]
                /\ UNCHANGED <<env, hist>>
         ELSE /\ env' = Sign1(parts.val[1], parts.val[2], parts.val[3],
                              parts.val[4])
              /\ hist' = NewHist(IF out.op = "signResolve"
                                      /\ buffer = out.message
                                   THEN out.src ELSE NoSrc)
              /\ out' = [Out("fromBuffer") EXCEPT !.val = decoded.val]
  /\ UNCHANGED <<signPc, signArgs, verifyPc, verifyArgs, codec>>

\* get data
data ==
  /\ out' = [Out("data") EXCEPT
               !.val = A(<<env.protectedHeader, env.unprotectedHeader,
                           env.payload,
                           IF env.signature \in {Undef, Null}
                             THEN B(<<>>) ELSE env.signature>>)]
  /\ UNCHANGED <<env, signPc, signArgs, verifyPc, verifyArgs, hist, codec>>

\* get decodedData
decodedData ==
  /\ LET ph == DecodeBuffer(env.protectedHeader)
         pl == DecodeBuffer(env.payload)
     IN  out' = IF ph.ok /\ pl.ok
                  THEN [Out("decodedData") EXCEPT
                          !.val = A(<<ph.val, env.unprotectedHeader, pl.val,
                                      env.signature>>)]
                  ELSE Thrown("decodedData", "DecodeError")
  /\ UNCHANGED <<env, signPc, signArgs, verifyPc, verifyArgs, hist, codec>>

\* ------------------------------------------------- codec round trip
MaxLen == 2
CodecAtoms ==
  {I(-25), I(-1), I(0), I(24), I(300), B(<<>>), B(<<1, 2>>), T(<<97>>),
   Null, Undef, True}
CodecValues ==
  CodecAtoms
    \cup {A(s) : s \in UNION {[1..n -> CodecAtoms] : n \in 0..MaxLen}}
    \cup {M(<<<<T(<<98>>), v>>>>) : v \in CodecAtoms}
    \cup {M(<<<<I(1), v>>, <<T(<<98>>), FromData(v)>>>>) : v \in CodecAtoms}

\* "dataElement"
DataElementKey == T(<<100, 97, 116, 97, 69, 108, 101, 109, 101, 110, 116>>)

\* DataElement.fromData(v)
CodecFromData ==
  /\ codec.stage = "start"
  /\ codec' = [codec EXCEPT !.stage = "wrapped", !.de = FromData(codec.v)]
  /\ UNCHANGED <<env, signPc, signArgs, verifyPc, verifyArgs, out, hist>>

\* CBOR.encode of the wrapper, alone or as a value of a mapping
CodecEncode ==
  /\ codec.stage = "wrapped"
  /\ codec' = [codec EXCEPT !.stage = "encoded",
                 !.bytes = Encode(IF codec.nested
                                    THEN M(<<<<T(<<97>>), I(1)>>,
                                             <<DataElementKey, codec.de>>>>)
                                    ELSE codec.de)]
  /\ UNCHANGED <<env, signPc, signArgs, verifyPc, verifyArgs, out, hist>>

\* CBOR.decode of the encoded bytes
CodecDecode ==
  /\ codec.stage = "encoded"
  /\ LET d == Decode(codec.bytes)
     IN  codec' = [codec EXCEPT !.stage = "decoded", !.ok = d.ok,
                     !.out = d.val]
  /\ UNCHANGED <<env, signPc, signArgs, verifyPc, verifyArgs, out, hist>>

CodecInit ==
  /\ env = NoEnv
  /\ signPc = "idle" /\ signArgs = NoSignArgs
  /\ verifyPc = "idle" /\ verifyArgs = NoVerifyArgs
  /\ out = NoOut
  /\ hist = NewHist(NoSrc)
  /\ codec \in {[NoCodec EXCEPT !.stage = "start", !.v = v, !.nested = n] :
                  v \in CodecValues, n \in BOOLEAN}

CodecNext == CodecFromData \/ CodecEncode \/ CodecDecode

SpecCodec == CodecInit /\ [][CodecNext]_vars

Next ==
  \/ \E fields \in FieldInputs : setProtectedHeader(fields)
  \/ \E alg \in SignAlgInputs : SignCall(alg)
  \/ \E signature \in SignatureBytes : SignResolve(signature)
  \/ \E err \in CallbackErrors : SignReject(err)
  \/ VerifyCall
  \/ \E verified \in BOOLEAN : VerifyResolve(verified)
  \/ \E err \in CallbackErrors : VerifyReject(err)
  \/ \E buffer \in ReceivedBuffers : fromBuffer(buffer)
  \/ data
  \/ decodedData

Spec == Init /\ [][Next]_vars

\* ==================================================================
\* Properties
\* ==================================================================

\* the instance was built by fromBuffer from the message a sign call
\* returned, the signed instance was not written to while the signer was
\* pending, and setProtectedHeader has not run on the new instance
FromSigned == hist.src.signed /\ hist.src.stable

\* what the round trip sign, fromBuffer, verify is claimed to do
RoundTrip ==
  /\ out.op = "verifyCall" => out.ok /\ verifyPc = "await"
  /\ verifyPc = "await" =>
       /\ verifyArgs.data = hist.src.data
       /\ verifyArgs.signature = hist.src.signature
  /\ out.op = "verifyResolve" =>
       /\ out.ok
       /\ out.verified = (out.answer = "true")
       /\ out.payload = DecodeBuffer(hist.src.env.payload).val

\* the bytes are one well-formed CBOR item
WellFormed(v) == DecodeBuffer(v).ok

\* C1 as stated: for every envelope E and every signature S, verify on
\* fromBuffer(E.sign(...)) calls the verifier with the bytes the signer
\* received and with S, and returns the verifier's outcome with the decoded
\* payload of E.
C1_Original == FromSigned => RoundTrip

\* C1 amended: the same, for every envelope E whose protected header bytes
\* are a well-formed CBOR item that is neither null nor undefined and whose
\* payload bytes are a well-formed CBOR item.
C1_RoundTrip ==
  ( /\ FromSigned
    /\ WellFormed(hist.src.env.protectedHeader)
    /\ DecodeBuffer(hist.src.env.protectedHeader).val \notin {Null, Undef}
    /\ WellFormed(hist.src.env.payload) )
  => RoundTrip

C1_Witness ==
  /\ FromSigned
  /\ out.op = "verifyResolve" /\ out.ok /\ out.verified
  /\ Kind(out.payload) = "map"

\* C2: verify on an instance without a signature fails with
\* MissingSignature and the verifier is not called, whatever the other
\* three fields are.
C2_MissingSignature ==
  (out.op = "verifyCall" /\ env.signature = Undef) =>
    /\ ~out.ok /\ out.err = "MissingSignature"
    /\ verifyPc = "idle" /\ ~verifyArgs.called

C2_Witness ==
  /\ out.op = "verifyCall" /\ env.signature = Undef
  /\ out.err = "MissingSignature"
  /\ WellFormed(env.protectedHeader) /\ WellFormed(env.payload)

\* C3: decode(encode(fromData(v))) is a DataElement with the very bytes of
\* the wrapper's buffer, also when the wrapper is a value of a mapping.
C3_DataElementFidelity ==
  codec.stage = "decoded" =>
    /\ codec.ok
    /\ LET d == IF codec.nested
                  THEN IF Kind(codec.out) = "map" /\ Len(Val(codec.out)) = 2
                         THEN Val(codec.out)[2][2] ELSE Undef
                  ELSE codec.out
       IN  Kind(d) = "de" /\ Val(d) = Val(codec.de)

C3_Witness ==
  /\ codec.stage = "decoded" /\ codec.nested /\ Kind(codec.v) = "map"
  /\ Len(Val(codec.de)) > 3

\* C4: sign and verify leave the four fields as they are at every step,
\* and when the callback rejects the call fails with the callback's error.
C4_CallbackFailure ==
  [][ /\ out'.op \in {"signCall", "signResolve", "signReject", "verifyCall",
                      "verifyResolve", "verifyReject"} => env' = env
      /\ out'.op \in {"signReject", "verifyReject"} =>
           ~out'.ok /\ out'.err = out'.answer ]_vars

C4_Witness ==
  /\ out.op = "signReject" /\ out.err = "E2" /\ env.signature = Undef

\* C5 as stated: setProtectedHeader stores the encoding of a mapping whose
\* label 1 holds the integer label of fields.alg (ES256 when absent or
\* unknown), with every other field but kid present.
ClaimedLabel(alg) ==
  CASE alg = "ES256" -> -7 [] alg = "ES384" -> -35 [] alg = "ES512" -> -36
    [] alg = "EDDSA" -> -8 [] OTHER -> -7

C5_Claim ==
  out.op = "setProtectedHeader" =>
    LET d == DecodeBuffer(env.protectedHeader)
    IN  /\ d.ok /\ Kind(d.val) = "map"
        /\ GetProp(d.val, 1).val = I(ClaimedLabel(hist.setAlg))
        /\ \A i \in 1..Len(hist.fields) :
             \E j \in 1..Len(Val(d.val)) : Val(d.val)[j] = hist.fields[i]
        /\ GetProp(d.val, 4).val = Undef

\* C6: the name handed to the verifier follows from label 1 of the decoded
\* protected header: -7, -35, -36 and -8 give ES256, ES384, ES512 and EDDSA,
\* anything else ES256; and verify does not fail on account of the label.
ClaimedName(label) ==
  CASE label = I(-7) -> "ES256" [] label = I(-35) -> "ES384"
    [] label = I(-36) -> "ES512" [] label = I(-8) -> "EDDSA"
    [] OTHER -> "ES256"

C6_AlgName ==
  /\ verifyPc = "await" => verifyArgs.alg = ClaimedName(verifyArgs.label)
  /\ ( /\ out.op = "verifyCall"
       /\ env.signature # Undef
       /\ WellFormed(env.protectedHeader)
       /\ DecodeBuffer(env.protectedHeader).val \notin {Null, Undef}
       /\ env.unprotectedHeader \notin {Null, Undef} )
     => out.ok

C6_Witness ==
  /\ verifyPc = "await" /\ verifyArgs.label = I(-36)
  /\ verifyArgs.alg = "ES512"

\* C7 as stated: fromBuffer fails unless the decoded value is a sequence of
\* exactly 4 elements, and then the fields are the elements in order.
C7_Claim ==
  out.op = "fromBuffer" =>
    IF Kind(out.val) = "arr" /\ Len(Val(out.val)) = 4
      THEN out.ok /\ env = Sign1(Val(out.val)[1], Val(out.val)[2],
                                 Val(out.val)[3], Val(out.val)[4])
      ELSE ~out.ok

\* C8 as stated: no call on an instance that has a signature changes any
\* of its four fields.
C8_Claim ==
  [][ (env.signature # Undef /\ out'.op # "fromBuffer") => env' = env ]_vars

\* C9 as stated: after setProtectedHeader({alg: A}) with A in the table,
\* the verifier is called with algorithm name A.
C9_Claim ==
  (verifyPc = "await" /\ verifyArgs.setAlg \in DOMAIN COSE_ALGORITHMS) =>
    verifyArgs.alg = verifyArgs.setAlg

\* C10 as stated: the message sign returns carries the protected header and
\* payload from which the bytes handed to the signer were built.
C10_Claim ==
  out.op = "signResolve" =>
    LET m == Val(Decode(out.message).val)
    IN  Encode(A(<<Signature1, m[1], B(<<>>), m[3]>>)) = out.src.data
====
